---- MODULE Spec2Model ----
(***************************************************************************)
(* State-machine model of SpeedTestThread (src/src/core/speed_tester.py),  *)
(* with three smaller specifications next to it: the speed-test buttons of *)
(* USBManagerWindow (SpecWindow), two SpeedTestThread runs side by side    *)
(* (SpecPair) and FileTransferThread (SpecTransfer).                       *)
(*                                                                         *)
(* One run() of the worker thread is modelled statement group by statement *)
(* group; cancel() is a concurrent action of the caller's thread.          *)
(* Sizes are counted in MiB (every size of the program is a whole number   *)
(* of MiB: test_size = test_size_mb * 2^20, buffer_size = 4 * 2^20), and   *)
(* elapsed times in ticks of half a millisecond.                           *)
(***************************************************************************)
EXTENDS Integers, Sequences, FiniteSets, TLC

VARIABLES
    platform,        \* platform.system()
    test_size,       \* self.test_size, in MiB
    pc,              \* position of run()
    is_cancelled,    \* self._is_cancelled
    cancel_pc,       \* position of run() when cancel() was called ("none": never)
    bytes_written,   \* local bytes_written of run(), in MiB
    short_writes,    \* number of f.write calls that wrote fewer bytes than asked
    file_exists,     \* the temp file exists in the target directory
    file_created,    \* the temp file was created by this run
    file_len,        \* bytes the temp file holds, in MiB
    fd,              \* the Python file object of the with block: "none", "w", "r"
    bytes_read,      \* local bytes_read / total_read of the chunked read loops
    events,          \* signals emitted so far, in order
    write_speed,     \* local write_speed, as the fraction num/den (MiB per tick)
    read_speed,      \* local read_speed, as the fraction num/den
    exc,             \* exception caught by run()'s except clause ("none": none)
    zero_div,        \* a float division by zero was attempted
    remove_failed,   \* os.remove raised inside _cleanup
    win_handle,      \* CreateFileW handle: "none", "open", "invalid", "closed"
    win_buf,         \* VirtualAlloc buffer: "none", "alloc", "freed"
    win_closes,      \* CloseHandle calls made on the handle CreateFileW opened
    win_frees,       \* VirtualFree calls made on the buffer
    dd_state,        \* the dd subprocess: "none", "running", "exit0", "exit_nonzero", "timeout", "error"
    dd_read,         \* bytes dd copied to /dev/null, in MiB
    io_after_cancel, \* chunks written or read after cancel() set the flag
    cancel_written,  \* bytes_written when cancel() was called
    flushed,         \* f.flush() and os.fsync() have returned
    purge_outcome,   \* the purge command: "none", "ok", "nonzero", "exception"
    nocache_outcome, \* the F_NOCACHE directive in _read_macos_dd: "none", "ok", "failed"
    \* USBManagerWindow (src/src/ui/main_window.py)
    ui_enabled,      \* per table row: the row's test button is enabled
    ui_gen,          \* number of times scan_usb_devices rebuilt the row widgets
    ui_threads,      \* the SpeedTestThread objects created so far, in order
    speed_test_thread, \* self.speed_test_thread: index in ui_threads, 0 for None
    ui_timer,        \* self.timer is active
    \* two SpeedTestThread runs side by side
    pair_pc,         \* per run: position of run()
    pair_target,     \* per run: self.target_path
    pair_name,       \* per run: the uuid4 hex of temp_file ("none" before line 42)
    pair_files,      \* the temp files that exist, as <<target, name>>
    pair_creator,    \* pairs <<path, run>>: the run whose open() created the path
    pair_touched,    \* per run: the paths it opened, wrote, read or removed
    \* FileTransferThread (src/src/core/file_transfer.py)
    ft_pc,           \* position of run()
    ft_cancelled,    \* self._is_cancelled
    ft_size,         \* chunks the source file holds
    ft_copied,       \* chunks copied so far
    ft_dst_exists,   \* the destination file exists
    ft_dst_len,      \* chunks the destination file holds
    ft_events,       \* progress and finished signals emitted, in order
    ft_exc           \* run() is in its except clause

threadVars == <<platform, test_size, pc, is_cancelled, cancel_pc, bytes_written,
          short_writes, file_exists, file_created, file_len, fd, bytes_read,
          events, write_speed, read_speed, exc, zero_div, remove_failed,
          win_handle, win_buf, win_closes, win_frees, dd_state, dd_read,
          io_after_cancel,
          cancel_written, flushed, purge_outcome, nocache_outcome>>

windowVars == <<ui_enabled, ui_gen, ui_threads, speed_test_thread, ui_timer>>
pairVars == <<pair_pc, pair_target, pair_name, pair_files, pair_creator, pair_touched>>
transferVars == <<ft_pc, ft_cancelled, ft_size, ft_copied, ft_dst_exists, ft_dst_len,
                  ft_events, ft_exc>>

\* the variables of the components other than the SpeedTestThread run
otherVars == <<windowVars, pairVars, transferVars>>

vars == <<threadVars, otherVars>>

fileVars == <<file_exists, file_created, file_len, fd>>
winVars  == <<win_handle, win_buf, win_closes, win_frees>>
ddVars   == <<dd_state, dd_read>>
cfgVars  == <<platform, test_size>>

----------------------------------------------------------------------------
(* Bounds of the model *)

MaxTestSizeMB == 9       \* test_size_mb ranges over 1..MaxTestSizeMB and the sizes below
MaxElapsed == 1          \* measured elapsed times range over 0..MaxElapsed ticks
MaxShortWrites == 1      \* short writes modelled per run
MaxRows == 2             \* storage devices listed in the USB table
MaxRefreshes == 2        \* rebuilds of the table modelled
MaxThreads == 3          \* SpeedTestThread objects the window creates
MaxChunks == 3           \* chunks of the file FileTransferThread copies

(* Program constants *)

buffer_size == 4         \* 4 * 1024 * 1024 bytes, in MiB
ClampTime == 2           \* 0.001 s, in ticks of half a millisecond

Platforms == {"Windows", "Darwin", "Linux"}

Rows == 1..MaxRows       \* rows of usbTable that hold a storage device
Runs == {1, 2}           \* the two concurrent runs

\* 100 is the default test_size_mb of __init__, 300 the size its docstring
\* names, 200 the size at which one 4 MiB chunk is exactly 1/50 of the file.
TestSizes == (1..MaxTestSizeMB) \cup {100, 200, 300}

Min(a, b) == IF a < b THEN a ELSE b

----------------------------------------------------------------------------
(* Signals *)

Prog(p, phase, kind) ==
    [sig |-> "progress_update", percent |-> p, phase |-> phase, kind |-> kind]

Term(sig, msg) ==
    [sig |-> sig, percent |-> -1, phase |-> "end", kind |-> msg]

PercentOfHundred(b, ts) == (b * 100) \div ts

(* int((b / test_size) * 50) in IEEE-754 double arithmetic.  The quotient  *)
(* is rounded before it is multiplied, and for b/ts = 0.58 the product is  *)
(* 28.999999999999996, truncated to 28; for every other b <= ts <= 1024    *)
(* the result is the exact floor(b * 50 / ts).                             *)
Percent(b, ts) ==
    IF b * 100 = 58 * ts THEN 28 ELSE (b * 50) \div ts

ReadPercentNoOffset(b, ts) == Percent(b, ts)
ReadPercent(b, ts) == 50 + Percent(b, ts)

(* if t == 0: t = 0.001 *)
ClampNever(e) == e
Clamp(e) == IF e = 0 THEN ClampTime ELSE e

NoSpeed == [num |-> 0, den |-> 0, raw |-> -1]

----------------------------------------------------------------------------
(* USBManagerWindow.__init__: no thread yet, the timer started, the table  *)
(* filled by the first scan with one enabled test button per storage row.  *)
WindowInit ==
    /\ ui_enabled = [r \in Rows |-> TRUE]
    /\ ui_gen = 0
    /\ ui_threads = << >>
    /\ speed_test_thread = 0
    /\ ui_timer = TRUE

(* Two SpeedTestThread objects constructed, none started. *)
PairInit ==
    /\ pair_pc = [i \in Runs |-> "idle"]
    /\ pair_target = [i \in Runs |-> "none"]
    /\ pair_name = [i \in Runs |-> "none"]
    /\ pair_files = {}
    /\ pair_creator = {}
    /\ pair_touched = [i \in Runs |-> {}]

(* FileTransferThread.__init__ *)
TransferInit ==
    /\ ft_pc = "idle"
    /\ ft_cancelled = FALSE
    /\ ft_size = 0
    /\ ft_copied = 0
    /\ ft_dst_exists = FALSE
    /\ ft_dst_len = 0
    /\ ft_events = << >>
    /\ ft_exc = FALSE

(* __init__ has run and start() has been called: run() is about to begin. *)
Init ==
    /\ platform \in Platforms
    /\ test_size \in TestSizes
    /\ pc = "idle"
    /\ is_cancelled = FALSE
    /\ cancel_pc = "none"
    /\ bytes_written = 0
    /\ short_writes = 0
    /\ file_exists = FALSE
    /\ file_created = FALSE
    /\ file_len = 0
    /\ fd = "none"
    /\ bytes_read = 0
    /\ events = << >>
    /\ write_speed = NoSpeed
    /\ read_speed = NoSpeed
    /\ exc = "none"
    /\ zero_div = FALSE
    /\ remove_failed = FALSE
    /\ win_handle = "none"
    /\ win_buf = "none"
    /\ win_closes = 0
    /\ win_frees = 0
    /\ dd_state = "none"
    /\ dd_read = 0
    /\ io_after_cancel = 0
    /\ cancel_written = 0
    /\ flushed = FALSE
    /\ purge_outcome = "none"
    /\ nocache_outcome = "none"
    /\ WindowInit
    /\ PairInit
    /\ TransferInit

(* cancel(): called from the caller's thread at any moment of the run. *)
cancel ==
    /\ pc # "done"
    /\ ~is_cancelled
    /\ is_cancelled' = TRUE
    /\ cancel_pc' = pc
    /\ cancel_written' = bytes_written
    /\ UNCHANGED <<otherVars, cfgVars, flushed, purge_outcome, nocache_outcome,
                   pc, bytes_written, short_writes, fileVars, bytes_read,
                   events, write_speed, read_speed, exc, zero_div, remove_failed,
                   winVars, ddVars, io_after_cancel>>

(* run(), lines 42-49: names the temp file, draws the random chunk and     *)
(* emits the first progress_update.                                        *)
RunStart ==
    /\ pc = "idle"
    /\ events' = Append(events, Prog(0, "write", "prepare"))
    /\ pc' = "open_w"
    /\ UNCHANGED <<otherVars, cfgVars, cancel_written, flushed, purge_outcome, nocache_outcome,
                   is_cancelled, cancel_pc, bytes_written, short_writes,
                   fileVars, bytes_read, write_speed, read_speed, exc, zero_div,
                   remove_failed, winVars, ddVars, io_after_cancel>>

OpenWriteFailureContinues ==
    /\ pc = "open_w"
    /\ \/ /\ file_exists' = TRUE
          /\ file_created' = TRUE
          /\ file_len' = 0
          /\ fd' = "w"
          /\ pc' = "w_check"
          /\ exc' = exc
       \/ /\ pc' = "w_check"
          /\ exc' = "open"
          /\ UNCHANGED fileVars
    /\ UNCHANGED <<otherVars, cfgVars, cancel_written, flushed, purge_outcome, nocache_outcome,
                   is_cancelled, cancel_pc, bytes_written, short_writes,
                   bytes_read, events, write_speed, read_speed, zero_div,
                   remove_failed, winVars, ddVars, io_after_cancel>>

(* open(temp_file, 'wb', buffering=0) and start_time = time.time(). *)
OpenWrite ==
    /\ pc = "open_w"
    /\ \/ /\ file_exists' = TRUE
          /\ file_created' = TRUE
          /\ file_len' = 0
          /\ fd' = "w"
          /\ pc' = "w_check"
          /\ exc' = exc
       \/ /\ pc' = "except"
          /\ exc' = "open"
          /\ UNCHANGED fileVars
    /\ UNCHANGED <<otherVars, cfgVars, cancel_written, flushed, purge_outcome, nocache_outcome,
                   is_cancelled, cancel_pc, bytes_written, short_writes,
                   bytes_read, events, write_speed, read_speed, zero_div,
                   remove_failed, winVars, ddVars, io_after_cancel>>

WriteCheckIgnoresCancel ==
    /\ pc = "w_check"
    /\ pc' = IF bytes_written < test_size THEN "w_chunk" ELSE "w_flush"
    /\ UNCHANGED <<otherVars, cfgVars, cancel_written, flushed, purge_outcome, nocache_outcome,
                   is_cancelled, cancel_pc, bytes_written, short_writes,
                   fileVars, bytes_read, events, write_speed, read_speed, exc,
                   zero_div, remove_failed, winVars, ddVars, io_after_cancel>>

(* while bytes_written < self.test_size: if self._is_cancelled: break *)
WriteCheck ==
    /\ pc = "w_check"
    /\ pc' = IF bytes_written < test_size /\ ~is_cancelled THEN "w_chunk" ELSE "w_flush"
    /\ UNCHANGED <<otherVars, cfgVars, cancel_written, flushed, purge_outcome, nocache_outcome,
                   is_cancelled, cancel_pc, bytes_written, short_writes,
                   fileVars, bytes_read, events, write_speed, read_speed, exc,
                   zero_div, remove_failed, winVars, ddVars, io_after_cancel>>

WriteLenAlways(remaining) == buffer_size
WriteLenZero(remaining) == 0
(* write_len = min(remaining, buffer_size) *)
WriteLen(remaining) == Min(remaining, buffer_size)

(* The byte counts a short f.write(data_chunk[:write_len]) may put on disk: *)
(* any count in 1..write_len-1, represented by the half of the slice.       *)
ShortWrite(write_len) == {k \in {write_len \div 2} : k >= 1}

(* Lines 59-67: one chunk.  f is a raw FileIO (buffering=0): write() puts  *)
(* all of the slice on disk, or fewer bytes (a short write, its return     *)
(* value is not read), or raises OSError.  The counter advances by the     *)
(* length asked for, whatever f.write returns.                             *)
WriteChunk ==
    /\ pc = "w_chunk"
    /\ LET write_len == WriteLen(test_size - bytes_written)
           written   == bytes_written + write_len
       IN  \/ /\ \/ /\ file_len' = file_len + write_len
                    /\ short_writes' = short_writes
                 \/ /\ short_writes < MaxShortWrites
                    /\ \E k \in ShortWrite(write_len) : file_len' = file_len + k
                    /\ short_writes' = short_writes + 1
              /\ bytes_written' = written
              /\ events' = Append(events, Prog(Percent(written, test_size), "write", "chunk"))
              /\ io_after_cancel' = IF is_cancelled THEN io_after_cancel + 1 ELSE io_after_cancel
              /\ pc' = "w_check"
              /\ UNCHANGED <<fd, exc>>
           \/ /\ fd' = "none"
              /\ exc' = "write"
              /\ pc' = "except"
              /\ UNCHANGED <<file_len, short_writes, bytes_written, events, io_after_cancel>>
    /\ UNCHANGED <<otherVars, cfgVars, cancel_written, flushed, purge_outcome, nocache_outcome,
                   is_cancelled, cancel_pc, file_exists, file_created,
                   bytes_read, write_speed, read_speed, zero_div, remove_failed,
                   winVars, ddVars>>

FlushOnlyCloses ==
    /\ pc = "w_flush"
    /\ fd' = "none"
    /\ pc' = "w_time"
    /\ UNCHANGED <<otherVars, cfgVars, cancel_written, flushed, purge_outcome, nocache_outcome,
                   is_cancelled, cancel_pc, bytes_written, short_writes,
                   file_exists, file_created, file_len, bytes_read, events,
                   write_speed, read_speed, exc, zero_div, remove_failed, winVars,
                   ddVars, io_after_cancel>>

(* f.flush(); os.fsync(f.fileno()); the with block closes f. *)
Flush ==
    /\ pc = "w_flush"
    /\ fd' = "none"
    /\ \/ /\ pc' = "w_time"
          /\ flushed' = TRUE
          /\ exc' = exc
       \/ /\ pc' = "except"
          /\ exc' = "fsync"
          /\ UNCHANGED flushed
    /\ UNCHANGED <<otherVars, cfgVars, cancel_written, purge_outcome, nocache_outcome,
                   is_cancelled, cancel_pc, bytes_written, short_writes,
                   file_exists, file_created, file_len, bytes_read, events,
                   write_speed, read_speed, zero_div, remove_failed, winVars,
                   ddVars, io_after_cancel>>

(* Lines 73-75: write_time = time.time() - start_time, the clamp, and      *)
(* write_speed = (self.test_size / 1024 / 1024) / write_time.              *)
WriteTime ==
    /\ pc = "w_time"
    /\ \E elapsed \in 0..MaxElapsed :
          LET write_time == Clamp(elapsed)
          IN  IF write_time = 0
              THEN /\ zero_div' = TRUE
                   /\ exc' = "ZeroDivisionError"
                   /\ pc' = "except"
                   /\ UNCHANGED write_speed
              ELSE /\ write_speed' = [num |-> test_size, den |-> write_time, raw |-> elapsed]
                   /\ pc' = "after_write"
                   /\ UNCHANGED <<zero_div, exc>>
    /\ UNCHANGED <<otherVars, cfgVars, cancel_written, flushed, purge_outcome, nocache_outcome,
                   is_cancelled, cancel_pc, bytes_written, short_writes,
                   fileVars, bytes_read, events, read_speed, remove_failed,
                   winVars, ddVars, io_after_cancel>>

AfterWriteNoCleanup ==
    /\ pc = "after_write"
    /\ IF is_cancelled
       THEN /\ pc' = "done"
            /\ UNCHANGED events
       ELSE IF platform = "Darwin"
            THEN /\ events' = Append(events, Prog(50, "cache", "prepare"))
                 /\ pc' = "purge"
            ELSE /\ pc' = "prep_read"
                 /\ UNCHANGED events
    /\ UNCHANGED <<otherVars, cfgVars, cancel_written, flushed, purge_outcome, nocache_outcome,
                   is_cancelled, cancel_pc, bytes_written, short_writes,
                   fileVars, bytes_read, write_speed, read_speed, exc, zero_div,
                   remove_failed, winVars, ddVars, io_after_cancel>>

(* Lines 77-83: a cancelled run goes to _cleanup and returns; on macOS the *)
(* cache-clear step is announced.                                          *)
AfterWrite ==
    /\ pc = "after_write"
    /\ IF is_cancelled
       THEN /\ pc' = "cleanup_cancel"
            /\ UNCHANGED events
       ELSE IF platform = "Darwin"
            THEN /\ events' = Append(events, Prog(50, "cache", "prepare"))
                 /\ pc' = "purge"
            ELSE /\ pc' = "prep_read"
                 /\ UNCHANGED events
    /\ UNCHANGED <<otherVars, cfgVars, cancel_written, flushed, purge_outcome, nocache_outcome,
                   is_cancelled, cancel_pc, bytes_written, short_writes,
                   fileVars, bytes_read, write_speed, read_speed, exc, zero_div,
                   remove_failed, winVars, ddVars, io_after_cancel>>

PurgeFatal ==
    /\ pc = "purge"
    /\ \E outcome \in {"ok", "nonzero", "exception"} :
          /\ purge_outcome' = outcome
          /\ IF outcome = "ok"
             THEN pc' = "prep_read" /\ exc' = exc
             ELSE pc' = "except" /\ exc' = "purge"
    /\ UNCHANGED <<otherVars, cfgVars, cancel_written, flushed, nocache_outcome,
                   is_cancelled, cancel_pc, bytes_written, short_writes,
                   fileVars, bytes_read, events, write_speed, read_speed,
                   zero_div, remove_failed, winVars, ddVars, io_after_cancel>>

(* Lines 86-114: purge or sudo -n purge; a non-zero exit is printed, a     *)
(* timeout or any other exception is caught and printed.  Every outcome    *)
(* continues at the read test.                                             *)
Purge ==
    /\ pc = "purge"
    /\ \E outcome \in {"ok", "nonzero", "exception"} : purge_outcome' = outcome
    /\ pc' = "prep_read"
    /\ UNCHANGED <<otherVars, cfgVars, cancel_written, flushed, nocache_outcome,
                   is_cancelled, cancel_pc, bytes_written, short_writes,
                   fileVars, bytes_read, events, write_speed, read_speed, exc,
                   zero_div, remove_failed, winVars, ddVars, io_after_cancel>>

(* Lines 117-128: announces the read test and selects the read method. *)
PrepRead ==
    /\ pc = "prep_read"
    /\ events' = Append(events, Prog(50, "read", "prepare"))
    /\ pc' = CASE platform = "Windows" -> "win_open"
               [] platform = "Darwin"  -> "dd_prepare"
               [] OTHER                -> "std_open"
    /\ UNCHANGED <<otherVars, cfgVars, cancel_written, flushed, purge_outcome, nocache_outcome,
                   is_cancelled, cancel_pc, bytes_written, short_writes,
                   fileVars, bytes_read, write_speed, read_speed, exc, zero_div,
                   remove_failed, winVars, ddVars, io_after_cancel>>

----------------------------------------------------------------------------
(* _read_standard (every platform but Windows and macOS).  Its macOS       *)
(* branches are never run: on macOS run() calls _read_macos_dd.            *)

(* start_time = time.time(); open(file_path, 'rb', buffering=0) *)
StdOpen ==
    /\ pc = "std_open"
    /\ \/ /\ fd' = "r"
          /\ bytes_read' = 0
          /\ pc' = "std_check"
          /\ exc' = exc
       \/ /\ exc' = "read_open"
          /\ pc' = "except"
          /\ UNCHANGED <<fd, bytes_read>>
    /\ UNCHANGED <<otherVars, cfgVars, cancel_written, flushed, purge_outcome, nocache_outcome,
                   is_cancelled, cancel_pc, bytes_written, short_writes,
                   file_exists, file_created, file_len, events, write_speed,
                   read_speed, zero_div, remove_failed, winVars, ddVars,
                   io_after_cancel>>

(* while True: if self._is_cancelled: break *)
StdCheck ==
    /\ pc = "std_check"
    /\ pc' = IF is_cancelled THEN "std_time" ELSE "std_read"
    /\ fd' = IF is_cancelled THEN "none" ELSE fd
    /\ UNCHANGED <<otherVars, cfgVars, cancel_written, flushed, purge_outcome, nocache_outcome,
                   is_cancelled, cancel_pc, bytes_written, short_writes,
                   file_exists, file_created, file_len, bytes_read, events,
                   write_speed, read_speed, exc, zero_div, remove_failed,
                   winVars, ddVars, io_after_cancel>>

(* chunk = f.read(buffer_size); if not chunk: break; the counter and the   *)
(* progress_update.  The read returns the bytes left in the file, at most  *)
(* buffer_size of them, or raises OSError.                                 *)
StdRead ==
    /\ pc = "std_read"
    /\ LET chunk == Min(buffer_size, file_len - bytes_read)
       IN  \/ /\ chunk = 0
              /\ fd' = "none"
              /\ pc' = "std_time"
              /\ UNCHANGED <<bytes_read, events, exc, io_after_cancel>>
           \/ /\ chunk > 0
              /\ bytes_read' = bytes_read + chunk
              /\ events' = Append(events,
                     Prog(ReadPercent(bytes_read + chunk, test_size), "read", "chunk"))
              /\ io_after_cancel' = IF is_cancelled THEN io_after_cancel + 1 ELSE io_after_cancel
              /\ pc' = "std_check"
              /\ UNCHANGED <<fd, exc>>
           \/ /\ fd' = "none"
              /\ exc' = "read"
              /\ pc' = "except"
              /\ UNCHANGED <<bytes_read, events, io_after_cancel>>
    /\ UNCHANGED <<otherVars, cfgVars, cancel_written, flushed, purge_outcome, nocache_outcome,
                   is_cancelled, cancel_pc, bytes_written, short_writes,
                   file_exists, file_created, file_len, write_speed, read_speed,
                   zero_div, remove_failed, winVars, ddVars>>

(* Lines 204-206: read_time, the clamp, (bytes_read / 1024 / 1024) / read_time. *)
StdTime ==
    /\ pc = "std_time"
    /\ \E elapsed \in 0..MaxElapsed :
          LET read_time == Clamp(elapsed)
          IN  IF read_time = 0
              THEN /\ zero_div' = TRUE
                   /\ exc' = "ZeroDivisionError"
                   /\ pc' = "except"
                   /\ UNCHANGED read_speed
              ELSE /\ read_speed' = [num |-> bytes_read, den |-> read_time, raw |-> elapsed]
                   /\ pc' = "cleanup"
                   /\ UNCHANGED <<zero_div, exc>>
    /\ UNCHANGED <<otherVars, cfgVars, cancel_written, flushed, purge_outcome, nocache_outcome,
                   is_cancelled, cancel_pc, bytes_written, short_writes,
                   fileVars, bytes_read, events, write_speed, remove_failed,
                   winVars, ddVars, io_after_cancel>>

----------------------------------------------------------------------------
(* _read_windows_uncached *)

(* finally: kernel32.CloseHandle(handle).  The call is made whatever the   *)
(* handle is; on an invalid handle it closes nothing.                      *)
CloseHandleSkipped == UNCHANGED <<win_handle, win_closes>>
CloseHandle ==
    /\ win_handle' = IF win_handle = "open" THEN "closed" ELSE win_handle
    /\ win_closes' = IF win_handle \in {"open", "closed"} THEN win_closes + 1 ELSE win_closes

(* finally: kernel32.VirtualFree(buf_addr, 0, MEM_RELEASE). *)
VirtualFree ==
    /\ win_buf' = "freed"
    /\ win_frees' = win_frees + 1

(* CreateFileW with FILE_FLAG_NO_BUFFERING, then the test                  *)
(* handle == INVALID_HANDLE_VALUE or handle is None, which raises.         *)
(* CreateFileW.restype is c_void_p, so a failed call hands back the        *)
(* unsigned value of (HANDLE)-1, which is neither -1 nor None: in that     *)
(* outcome the test does not fire and the function goes on with the        *)
(* invalid handle.                                                         *)
WinOpen ==
    /\ pc = "win_open"
    /\ \/ /\ win_handle' = "open"
          /\ pc' = "win_alloc"
          /\ exc' = exc
       \/ /\ win_handle' = "invalid"
          /\ pc' = "win_alloc"
          /\ exc' = exc
       \/ /\ exc' = "CreateFileW"
          /\ pc' = "except"
          /\ UNCHANGED win_handle
    /\ UNCHANGED <<otherVars, cfgVars, cancel_written, flushed, purge_outcome, nocache_outcome,
                   is_cancelled, cancel_pc, bytes_written, short_writes,
                   fileVars, bytes_read, events, write_speed, read_speed,
                   zero_div, remove_failed, win_buf, win_closes, win_frees,
                   ddVars, io_after_cancel>>

(* VirtualAlloc; a null address raises inside the outer try, whose finally *)
(* closes the handle.                                                      *)
WinAlloc ==
    /\ pc = "win_alloc"
    /\ \/ /\ win_buf' = "alloc"
          /\ bytes_read' = 0
          /\ pc' = "win_check"
          /\ UNCHANGED <<win_handle, win_closes, win_frees, exc>>
       \/ /\ CloseHandle
          /\ exc' = "VirtualAlloc"
          /\ pc' = "except"
          /\ UNCHANGED <<win_buf, win_frees, bytes_read>>
    /\ UNCHANGED <<otherVars, cfgVars, cancel_written, flushed, purge_outcome, nocache_outcome,
                   is_cancelled, cancel_pc, bytes_written, short_writes,
                   fileVars, events, write_speed, read_speed, zero_div,
                   remove_failed, ddVars, io_after_cancel>>

(* while total_read < self.test_size: if self._is_cancelled: break *)
WinCheck ==
    /\ pc = "win_check"
    /\ pc' = IF bytes_read < test_size /\ ~is_cancelled THEN "win_read" ELSE "win_time"
    /\ UNCHANGED <<otherVars, cfgVars, cancel_written, flushed, purge_outcome, nocache_outcome,
                   is_cancelled, cancel_pc, bytes_written, short_writes,
                   fileVars, bytes_read, events, write_speed, read_speed, exc,
                   zero_div, remove_failed, winVars, ddVars, io_after_cancel>>

(* ReadFile of min(buffer_size, test_size - total_read) bytes: it fails    *)
(* with ERROR_HANDLE_EOF or reads nothing at the end of the file (break),  *)
(* fails with another error (raise; both finally blocks run), or reads.    *)
(* On an invalid handle it can only fail.                                  *)
WinRead ==
    /\ pc = "win_read"
    /\ LET to_read == Min(buffer_size, test_size - bytes_read)
           got     == Min(to_read, file_len - bytes_read)
       IN  \/ /\ win_handle = "open"
              /\ got = 0
              /\ pc' = "win_time"
              /\ UNCHANGED <<bytes_read, events, exc, winVars, io_after_cancel>>
           \/ /\ win_handle = "open"
              /\ got > 0
              /\ bytes_read' = bytes_read + got
              /\ events' = Append(events,
                     Prog(ReadPercent(bytes_read + got, test_size), "read", "chunk"))
              /\ io_after_cancel' = IF is_cancelled THEN io_after_cancel + 1 ELSE io_after_cancel
              /\ pc' = "win_check"
              /\ UNCHANGED <<exc, winVars>>
           \/ /\ VirtualFree
              /\ CloseHandle
              /\ exc' = "ReadFile"
              /\ pc' = "except"
              /\ UNCHANGED <<bytes_read, events, io_after_cancel>>
    /\ UNCHANGED <<otherVars, cfgVars, cancel_written, flushed, purge_outcome, nocache_outcome,
                   is_cancelled, cancel_pc, bytes_written, short_writes,
                   fileVars, write_speed, read_speed, zero_div, remove_failed,
                   ddVars>>

(* Lines 377-387: read_time, the clamp, the speed from total_read, then    *)
(* VirtualFree and CloseHandle in the finally blocks.                      *)
WinTime ==
    /\ pc = "win_time"
    /\ VirtualFree
    /\ CloseHandle
    /\ \E elapsed \in 0..MaxElapsed :
          LET read_time == Clamp(elapsed)
          IN  IF read_time = 0
              THEN /\ zero_div' = TRUE
                   /\ exc' = "ZeroDivisionError"
                   /\ pc' = "except"
                   /\ UNCHANGED read_speed
              ELSE /\ read_speed' = [num |-> bytes_read, den |-> read_time, raw |-> elapsed]
                   /\ pc' = "cleanup"
                   /\ UNCHANGED <<zero_div, exc>>
    /\ UNCHANGED <<otherVars, cfgVars, cancel_written, flushed, purge_outcome, nocache_outcome,
                   is_cancelled, cancel_pc, bytes_written, short_writes,
                   fileVars, bytes_read, events, write_speed, remove_failed,
                   ddVars, io_after_cancel>>

----------------------------------------------------------------------------
(* _read_macos_dd *)

(* Lines 215-237: os.path.getsize (an exception is re-raised as a dd read  *)
(* failure), the F_NOCACHE attempt whose failure is printed, the           *)
(* progress_update of 70 and the start of dd.                              *)
DDPrepare ==
    /\ pc = "dd_prepare"
    /\ \/ /\ \E outcome \in {"ok", "failed"} : nocache_outcome' = outcome
          /\ events' = Append(events, Prog(70, "read", "dd"))
          /\ dd_state' = "running"
          /\ pc' = "dd_running"
          /\ exc' = exc
       \/ /\ exc' = "dd_failed"
          /\ pc' = "except"
          /\ UNCHANGED <<events, dd_state, nocache_outcome>>
    /\ UNCHANGED <<otherVars, cfgVars, cancel_written, flushed, purge_outcome,
                   is_cancelled, cancel_pc, bytes_written, short_writes,
                   fileVars, bytes_read, write_speed, read_speed, zero_div,
                   remove_failed, winVars, dd_read, io_after_cancel>>

(* Lines 239-268: subprocess.run(['dd', ...], timeout=120) returns, with   *)
(* exit status 0 or not (the status is printed, never tested), or raises   *)
(* TimeoutExpired (re-raised as the timeout message) or another exception  *)
(* (re-raised as a dd read failure).  On return the speed is file_size     *)
(* over the clamped read_time, and 100 is emitted.                         *)
(* A dd that exits with a non-zero status has copied part of the file:     *)
(* nothing, half of it, or all but the last MiB.                           *)
DDPartial(size) == {0, size \div 2, size - 1}

(* The read of dd counted in chunks of buffer_size, when dd was started    *)
(* with the flag already set: _read_macos_dd never reads the flag.         *)
DDChunks(size) == (size + buffer_size - 1) \div buffer_size

DDTimeoutMessageGeneric == "dd_failed"
(* except subprocess.TimeoutExpired: raise Exception(the timeout message) *)
DDTimeoutMessage == "dd_timeout"

DDFinish ==
    /\ pc = "dd_running"
    /\ \/ /\ \/ /\ dd_state' = "exit0"
                /\ dd_read' = file_len
             \/ /\ dd_state' = "exit_nonzero"
                /\ \E k \in DDPartial(file_len) : dd_read' = k
          /\ io_after_cancel' = IF is_cancelled /\ cancel_pc # "dd_running"
                                 THEN io_after_cancel + DDChunks(dd_read')
                                 ELSE io_after_cancel
          /\ \E elapsed \in 0..MaxElapsed :
                LET read_time == Clamp(elapsed)
                IN  IF read_time = 0
                    THEN /\ zero_div' = TRUE
                         /\ exc' = "dd_failed"
                         /\ pc' = "except"
                         /\ UNCHANGED <<read_speed, events>>
                    ELSE /\ read_speed' = [num |-> file_len, den |-> read_time, raw |-> elapsed]
                         /\ events' = Append(events, Prog(100, "read", "dd"))
                         /\ pc' = "cleanup"
                         /\ UNCHANGED <<zero_div, exc>>
       \/ /\ dd_state' = "timeout"
          /\ exc' = DDTimeoutMessage
          /\ pc' = "except"
          /\ UNCHANGED <<dd_read, read_speed, events, zero_div, io_after_cancel>>
       \/ /\ dd_state' = "error"
          /\ exc' = "dd_failed"
          /\ pc' = "except"
          /\ UNCHANGED <<dd_read, read_speed, events, zero_div, io_after_cancel>>
    /\ UNCHANGED <<otherVars, cfgVars, cancel_written, flushed, purge_outcome, nocache_outcome,
                   is_cancelled, cancel_pc, bytes_written, short_writes,
                   fileVars, bytes_read, write_speed, remove_failed, winVars>>

----------------------------------------------------------------------------
(* The end of run() *)

AfterCleanup(at) ==
    CASE at = "cleanup"        -> "final_check"
      [] at = "cleanup_cancel" -> "done"
      [] at = "cleanup_except" -> "done"

CleanupRaises ==
    /\ pc \in {"cleanup", "cleanup_cancel", "cleanup_except"}
    /\ \/ /\ file_exists
          /\ file_exists' = FALSE
          /\ pc' = AfterCleanup(pc)
          /\ UNCHANGED <<remove_failed, exc>>
       \/ /\ file_exists
          /\ remove_failed' = TRUE
          /\ exc' = IF pc = "cleanup" THEN "remove" ELSE exc
          /\ pc' = IF pc = "cleanup" THEN "except" ELSE AfterCleanup(pc)
          /\ UNCHANGED file_exists
       \/ /\ ~file_exists
          /\ pc' = AfterCleanup(pc)
          /\ UNCHANGED <<file_exists, remove_failed, exc>>
    /\ UNCHANGED <<otherVars, cfgVars, cancel_written, flushed, purge_outcome, nocache_outcome,
                   is_cancelled, cancel_pc, bytes_written, short_writes,
                   file_created, file_len, fd, bytes_read, events, write_speed,
                   read_speed, zero_div, winVars, ddVars, io_after_cancel>>

(* _cleanup(temp_file): if the file exists os.remove is called; whatever   *)
(* it raises is swallowed.  Called at line 78 (cancelled after the write   *)
(* phase), line 131 (after the read phase) and line 139 (after the error   *)
(* signal).                                                                *)
Cleanup ==
    /\ pc \in {"cleanup", "cleanup_cancel", "cleanup_except"}
    /\ \/ /\ file_exists
          /\ file_exists' = FALSE
          /\ UNCHANGED remove_failed
       \/ /\ file_exists
          /\ remove_failed' = TRUE
          /\ UNCHANGED file_exists
       \/ /\ ~file_exists
          /\ UNCHANGED <<file_exists, remove_failed>>
    /\ pc' = AfterCleanup(pc)
    /\ UNCHANGED <<otherVars, cfgVars, cancel_written, flushed, purge_outcome, nocache_outcome,
                   is_cancelled, cancel_pc, bytes_written, short_writes,
                   file_created, file_len, fd, bytes_read, events, write_speed,
                   read_speed, exc, zero_div, winVars, ddVars, io_after_cancel>>

FinalCheckIgnoresCancel ==
    /\ pc = "final_check"
    /\ pc' = "emit_finished"
    /\ UNCHANGED <<otherVars, cfgVars, cancel_written, flushed, purge_outcome, nocache_outcome,
                   is_cancelled, cancel_pc, bytes_written, short_writes,
                   fileVars, bytes_read, events, write_speed, read_speed, exc,
                   zero_div, remove_failed, winVars, ddVars, io_after_cancel>>

(* Line 133: if not self._is_cancelled *)
FinalCheck ==
    /\ pc = "final_check"
    /\ pc' = IF ~is_cancelled THEN "emit_finished" ELSE "done"
    /\ UNCHANGED <<otherVars, cfgVars, cancel_written, flushed, purge_outcome, nocache_outcome,
                   is_cancelled, cancel_pc, bytes_written, short_writes,
                   fileVars, bytes_read, events, write_speed, read_speed, exc,
                   zero_div, remove_failed, winVars, ddVars, io_after_cancel>>

EmitFinishedThenProgress ==
    /\ pc = "emit_finished"
    /\ events' = events \o <<Term("test_finished", "result"), Prog(100, "read", "done")>>
    /\ pc' = "done"
    /\ UNCHANGED <<otherVars, cfgVars, cancel_written, flushed, purge_outcome, nocache_outcome,
                   is_cancelled, cancel_pc, bytes_written, short_writes,
                   fileVars, bytes_read, write_speed, read_speed, exc, zero_div,
                   remove_failed, winVars, ddVars, io_after_cancel>>

(* Lines 134-135: the result text from write_speed and read_speed, and     *)
(* test_finished.                                                          *)
EmitFinished ==
    /\ pc = "emit_finished"
    /\ events' = Append(events, Term("test_finished", "result"))
    /\ pc' = "done"
    /\ UNCHANGED <<otherVars, cfgVars, cancel_written, flushed, purge_outcome, nocache_outcome,
                   is_cancelled, cancel_pc, bytes_written, short_writes,
                   fileVars, bytes_read, write_speed, read_speed, exc, zero_div,
                   remove_failed, winVars, ddVars, io_after_cancel>>

ExceptSilent ==
    /\ pc = "except"
    /\ pc' = "cleanup_except"
    /\ UNCHANGED <<otherVars, cfgVars, cancel_written, flushed, purge_outcome, nocache_outcome,
                   is_cancelled, cancel_pc, bytes_written, short_writes,
                   fileVars, bytes_read, events, write_speed, read_speed, exc,
                   zero_div, remove_failed, winVars, ddVars, io_after_cancel>>

(* Line 138: except Exception as e: self.error_occurred.emit(...) *)
Except ==
    /\ pc = "except"
    /\ events' = Append(events, Term("error_occurred", exc))
    /\ pc' = "cleanup_except"
    /\ UNCHANGED <<otherVars, cfgVars, cancel_written, flushed, purge_outcome, nocache_outcome,
                   is_cancelled, cancel_pc, bytes_written, short_writes,
                   fileVars, bytes_read, write_speed, read_speed, exc, zero_div,
                   remove_failed, winVars, ddVars, io_after_cancel>>

----------------------------------------------------------------------------
Next ==
    \/ cancel
    \/ RunStart
    \/ OpenWrite
    \/ WriteCheck
    \/ WriteChunk
    \/ Flush
    \/ WriteTime
    \/ AfterWrite
    \/ Purge
    \/ PrepRead
    \/ StdOpen
    \/ StdCheck
    \/ StdRead
    \/ StdTime
    \/ WinOpen
    \/ WinAlloc
    \/ WinCheck
    \/ WinRead
    \/ WinTime
    \/ DDPrepare
    \/ DDFinish
    \/ Cleanup
    \/ FinalCheck
    \/ EmitFinished
    \/ Except

Spec == Init /\ [][Next]_vars

(* The steps of run() itself.  The worker thread is scheduled as long as   *)
(* it has a step to take, and every I/O call and the dd helper return:     *)
(* weak fairness on the steps of run().  cancel() is the caller's choice   *)
(* and carries no fairness.                                                *)
RunStep ==
    \/ RunStart \/ OpenWrite \/ WriteCheck \/ WriteChunk \/ Flush \/ WriteTime
    \/ AfterWrite \/ Purge \/ PrepRead
    \/ StdOpen \/ StdCheck \/ StdRead \/ StdTime
    \/ WinOpen \/ WinAlloc \/ WinCheck \/ WinRead \/ WinTime
    \/ DDPrepare \/ DDFinish
    \/ Cleanup \/ FinalCheck \/ EmitFinished \/ Except

SpecLive == Init /\ [][Next]_vars /\ WF_vars(RunStep)

----------------------------------------------------------------------------
(* USBManagerWindow: the speed-test buttons of the USB table               *)
(* (src/src/ui/main_window.py).  A button can be clicked while it is       *)
(* enabled; the handlers run on the GUI thread, one at a time.             *)

RunningThreads == {t \in DOMAIN ui_threads : ui_threads[t].state = "running"}

(* start_speed_test, lines 280-329: timer.stop(), then a return without a  *)
(* thread (no mounted drive, the dialog declined, no target path), each    *)
(* after timer.start(10000).                                               *)
StartSpeedTestDeclined(r) ==
    /\ ui_enabled[r]
    /\ ui_timer' = TRUE
    /\ UNCHANGED <<threadVars, pairVars, transferVars,
                   ui_enabled, ui_gen, ui_threads, speed_test_thread>>

(* start_speed_test, lines 280-367 with a target chosen: timer.stop(), the *)
(* clicked button is disabled, a new SpeedTestThread is stored in          *)
(* self.speed_test_thread, its signals are connected and it is started.    *)
StartSpeedTest(r) ==
    /\ ui_enabled[r]
    /\ Len(ui_threads) < MaxThreads
    /\ ui_timer' = FALSE
    /\ ui_enabled' = [ui_enabled EXCEPT ![r] = FALSE]
    /\ ui_threads' = Append(ui_threads, [row |-> r, gen |-> ui_gen, state |-> "running"])
    /\ speed_test_thread' = Len(ui_threads) + 1
    /\ UNCHANGED <<threadVars, pairVars, transferVars, ui_gen>>

(* The button a handler of thread t holds: setEnabled(True) acts on the    *)
(* widget the thread was started from; when scan_usb_devices has replaced  *)
(* it the call raises RuntimeError, which the handler swallows.            *)
Reenable(t) ==
    IF ui_threads[t].gen = ui_gen
    THEN [ui_enabled EXCEPT ![ui_threads[t].row] = TRUE]
    ELSE ui_enabled

(* on_finished, lines 339-350: thread t emitted test_finished. *)
OnFinished(t) ==
    /\ t \in RunningThreads
    /\ ui_threads' = [ui_threads EXCEPT ![t].state = "finished"]
    /\ ui_enabled' = Reenable(t)
    /\ ui_timer' = TRUE
    /\ UNCHANGED <<threadVars, pairVars, transferVars, ui_gen, speed_test_thread>>

(* on_error, lines 352-361: thread t emitted error_occurred. *)
OnError(t) ==
    /\ t \in RunningThreads
    /\ ui_threads' = [ui_threads EXCEPT ![t].state = "failed"]
    /\ ui_enabled' = Reenable(t)
    /\ ui_timer' = TRUE
    /\ UNCHANGED <<threadVars, pairVars, transferVars, ui_gen, speed_test_thread>>

(* scan_usb_devices, lines 217-276, from a click on refreshUsbBtn: every   *)
(* storage row gets a new widget from create_speed_test_widget, whose      *)
(* button is enabled.                                                      *)
ScanUsbDevices ==
    /\ ui_gen < MaxRefreshes
    /\ ui_gen' = ui_gen + 1
    /\ ui_enabled' = [r \in Rows |-> TRUE]
    /\ UNCHANGED <<threadVars, pairVars, transferVars,
                   ui_threads, speed_test_thread, ui_timer>>

(* auto_refresh, lines 568-572: the timer fired; the same rebuild. *)
AutoRefresh ==
    /\ ui_timer
    /\ ui_gen < MaxRefreshes
    /\ ui_gen' = ui_gen + 1
    /\ ui_enabled' = [r \in Rows |-> TRUE]
    /\ UNCHANGED <<threadVars, pairVars, transferVars,
                   ui_threads, speed_test_thread, ui_timer>>

\* start_speed_test passes no test_size_mb: the default of 100 MB
InitWindow == Init /\ platform = "Windows" /\ test_size = 100

NextWindow ==
    \/ \E r \in Rows : StartSpeedTestDeclined(r)
    \/ \E r \in Rows : StartSpeedTest(r)
    \/ \E t \in DOMAIN ui_threads : OnFinished(t)
    \/ \E t \in DOMAIN ui_threads : OnError(t)
    \/ ScanUsbDevices
    \/ AutoRefresh

SpecWindow == InitWindow /\ [][NextWindow]_vars

----------------------------------------------------------------------------
(* Two SpeedTestThread runs side by side: the temp file each one names,    *)
(* creates, reads and removes (src/src/core/speed_tester.py).              *)

Targets == {"E", "F"}
UUIDs == {"u1", "u2", "u3"}

\* temp_file of run i: self.target_path / f"speed_test_{uuid}.tmp"
TempFile(i) == <<pair_target[i], pair_name[i]>>

Uuid4Fixed(drawn) == {"u1"}
(* uuid.uuid4().hex: 122 random bits; a value already drawn is taken not   *)
(* to be drawn again.                                                      *)
Uuid4(drawn) == UUIDs \ drawn

(* __init__ with a target path and line 42 of run(): the temp file's name. *)
PairStart(i) ==
    /\ pair_pc[i] = "idle"
    /\ \E tgt \in Targets, u \in Uuid4({pair_name[j] : j \in Runs} \ {"none"}) :
          /\ pair_target' = [pair_target EXCEPT ![i] = tgt]
          /\ pair_name' = [pair_name EXCEPT ![i] = u]
    /\ pair_pc' = [pair_pc EXCEPT ![i] = "named"]
    /\ UNCHANGED <<threadVars, windowVars, transferVars,
                   pair_files, pair_creator, pair_touched>>

(* Line 52: open(temp_file, 'wb', buffering=0) creates the file, or        *)
(* truncates the one that is there, or raises.                             *)
PairOpenWrite(i) ==
    /\ pair_pc[i] = "named"
    /\ \/ /\ pair_files' = pair_files \cup {TempFile(i)}
          /\ pair_creator' = IF TempFile(i) \in pair_files
                             THEN pair_creator
                             ELSE pair_creator \cup {<<TempFile(i), i>>}
          /\ pair_touched' = [pair_touched EXCEPT ![i] = @ \cup {TempFile(i)}]
          /\ pair_pc' = [pair_pc EXCEPT ![i] = "writing"]
       \/ /\ pair_pc' = [pair_pc EXCEPT ![i] = "except"]
          /\ UNCHANGED <<pair_files, pair_creator, pair_touched>>
    /\ UNCHANGED <<threadVars, windowVars, transferVars, pair_target, pair_name>>

(* Lines 55-71: the write loop, flush and fsync on the open file. *)
PairWrite(i) ==
    /\ pair_pc[i] = "writing"
    /\ \/ pair_pc' = [pair_pc EXCEPT ![i] = "written"]
       \/ pair_pc' = [pair_pc EXCEPT ![i] = "except"]
    /\ UNCHANGED <<threadVars, windowVars, transferVars,
                   pair_target, pair_name, pair_files, pair_creator, pair_touched>>

(* Lines 122-128: the read strategy opens temp_file and reads it; a file   *)
(* that is no longer there raises.                                         *)
PairRead(i) ==
    /\ pair_pc[i] = "written"
    /\ pair_touched' = [pair_touched EXCEPT ![i] = @ \cup {TempFile(i)}]
    /\ \/ /\ TempFile(i) \in pair_files
          /\ pair_pc' = [pair_pc EXCEPT ![i] = "read"]
       \/ pair_pc' = [pair_pc EXCEPT ![i] = "except"]
    /\ UNCHANGED <<threadVars, windowVars, transferVars,
                   pair_target, pair_name, pair_files, pair_creator>>

(* _cleanup(temp_file), lines 389-395, after the read or in the except     *)
(* clause: the file is removed if it exists.                               *)
PairCleanup(i) ==
    /\ pair_pc[i] \in {"read", "except"}
    /\ pair_name[i] # "none"
    /\ IF TempFile(i) \in pair_files
       THEN /\ pair_files' = pair_files \ {TempFile(i)}
            /\ pair_touched' = [pair_touched EXCEPT ![i] = @ \cup {TempFile(i)}]
       ELSE UNCHANGED <<pair_files, pair_touched>>
    /\ pair_pc' = [pair_pc EXCEPT ![i] = "done"]
    /\ UNCHANGED <<threadVars, windowVars, transferVars,
                   pair_target, pair_name, pair_creator>>

InitPair == Init /\ platform = "Linux" /\ test_size = 100

NextPair ==
    \/ \E i \in Runs : PairStart(i)
    \/ \E i \in Runs : PairOpenWrite(i)
    \/ \E i \in Runs : PairWrite(i)
    \/ \E i \in Runs : PairRead(i)
    \/ \E i \in Runs : PairCleanup(i)

SpecPair == InitPair /\ [][NextPair]_vars

----------------------------------------------------------------------------
(* FileTransferThread (src/src/core/file_transfer.py): one run() copying   *)
(* the source to the destination chunk by chunk; sizes are counted in      *)
(* chunks of chunk_size bytes.                                             *)

FTFinished(ok, msg) == [sig |-> "finished", ok |-> ok, msg |-> msg, percent |-> -1]
FTProgress(p) == [sig |-> "progress", ok |-> TRUE, msg |-> "speed", percent |-> p]

(* cancel(), called by cancel_transfer while the thread is running (from  *)
(* start() on).                                                            *)
FTCancel ==
    /\ ft_pc # "done"
    /\ ~ft_cancelled
    /\ ft_cancelled' = TRUE
    /\ UNCHANGED <<threadVars, windowVars, pairVars,
                   ft_pc, ft_size, ft_copied, ft_dst_exists, ft_dst_len, ft_events, ft_exc>>

(* Line 38: file_size = os.path.getsize(self.source), or it raises. *)
FTGetSize ==
    /\ ft_pc = "idle"
    /\ \/ /\ ft_size' \in 0..MaxChunks
          /\ ft_pc' = "open"
          /\ UNCHANGED ft_exc
       \/ /\ ft_pc' = "except"
          /\ ft_exc' = TRUE
          /\ UNCHANGED ft_size
    /\ UNCHANGED <<threadVars, windowVars, pairVars,
                   ft_cancelled, ft_copied, ft_dst_exists, ft_dst_len, ft_events>>

(* Lines 41-43: open(source, 'rb') and open(destination, 'wb'), which      *)
(* creates the destination empty; either may raise.                        *)
FTOpen ==
    /\ ft_pc = "open"
    /\ \/ /\ ft_dst_exists' = TRUE
          /\ ft_dst_len' = 0
          /\ ft_copied' = 0
          /\ ft_pc' = "loop"
          /\ UNCHANGED ft_exc
       \/ /\ ft_pc' = "except"
          /\ ft_exc' = TRUE
          /\ UNCHANGED <<ft_dst_exists, ft_dst_len, ft_copied>>
    /\ UNCHANGED <<threadVars, windowVars, pairVars, ft_cancelled, ft_size, ft_events>>

(* Line 45: while not self._is_cancelled *)
FTLoopCheck ==
    /\ ft_pc = "loop"
    /\ ft_pc' = IF ft_cancelled THEN "after_loop" ELSE "copy"
    /\ UNCHANGED <<threadVars, windowVars, pairVars, ft_cancelled, ft_size, ft_copied,
                   ft_dst_exists, ft_dst_len, ft_events, ft_exc>>

(* Lines 46-59: read a chunk (an empty one ends the loop), write it, count *)
(* it and, when the elapsed time is above zero, emit progress with         *)
(* int((copied / file_size) * 100); the read or the write may raise, and   *)
(* both files are closed by the with blocks.                               *)
FTCopyChunk ==
    /\ ft_pc = "copy"
    /\ \/ /\ ft_copied = ft_size
          /\ ft_pc' = "after_loop"
          /\ UNCHANGED <<ft_copied, ft_dst_len, ft_exc, ft_events>>
       \/ /\ ft_copied < ft_size
          /\ ft_copied' = ft_copied + 1
          /\ ft_dst_len' = ft_dst_len + 1
          /\ \/ ft_events' = Append(ft_events, FTProgress(((ft_copied + 1) * 100) \div ft_size))
             \/ UNCHANGED ft_events
          /\ ft_pc' = "loop"
          /\ UNCHANGED ft_exc
       \/ /\ ft_copied < ft_size
          /\ ft_pc' = "except"
          /\ ft_exc' = TRUE
          /\ UNCHANGED <<ft_copied, ft_dst_len, ft_events>>
    /\ UNCHANGED <<threadVars, windowVars, pairVars, ft_cancelled, ft_size,
                   ft_dst_exists>>

(* Lines 61-68: a cancelled transfer removes the destination if it exists  *)
(* (os.remove may raise) and emits finished(False, cancelled); otherwise   *)
(* finished(True, ...) is emitted.                                         *)
FTAfterLoop ==
    /\ ft_pc = "after_loop"
    /\ \/ /\ ft_cancelled
          /\ ft_dst_exists' = FALSE
          /\ ft_events' = Append(ft_events, FTFinished(FALSE, "cancelled"))
          /\ ft_pc' = "done"
          /\ UNCHANGED ft_exc
       \/ /\ ft_cancelled
          /\ ft_dst_exists
          /\ ft_pc' = "except"
          /\ ft_exc' = TRUE
          /\ UNCHANGED <<ft_dst_exists, ft_events>>
       \/ /\ ~ft_cancelled
          /\ ft_events' = Append(ft_events, FTFinished(TRUE, "success"))
          /\ ft_pc' = "done"
          /\ UNCHANGED <<ft_dst_exists, ft_exc>>
    /\ UNCHANGED <<threadVars, windowVars, pairVars, ft_cancelled, ft_size, ft_copied,
                   ft_dst_len>>

(* Lines 70-71: except Exception as e: self.finished.emit(False, ...) *)
FTExcept ==
    /\ ft_pc = "except"
    /\ ft_events' = Append(ft_events, FTFinished(FALSE, "failed"))
    /\ ft_pc' = "done"
    /\ UNCHANGED <<threadVars, windowVars, pairVars, ft_cancelled, ft_size, ft_copied,
                   ft_dst_exists, ft_dst_len, ft_exc>>

InitTransfer == Init /\ platform = "Linux" /\ test_size = 100

NextTransfer ==
    \/ FTCancel
    \/ FTGetSize
    \/ FTOpen
    \/ FTLoopCheck
    \/ FTCopyChunk
    \/ FTAfterLoop
    \/ FTExcept

SpecTransfer == InitTransfer /\ [][NextTransfer]_vars

----------------------------------------------------------------------------
(* Vocabulary of the properties *)

IsTerminal(e) == e.sig \in {"test_finished", "error_occurred"}
IsProgress(e) == e.sig = "progress_update"

TerminalCount == Cardinality({i \in DOMAIN events : IsTerminal(events[i])})
Finished == \E i \in DOMAIN events : events[i].sig = "test_finished"
ErrorEmitted == \E i \in DOMAIN events : events[i].sig = "error_occurred"

(* Positions of run() inside the write loop and inside the read phase. *)
WriteLoopPcs == {"w_check", "w_chunk"}
ReadPhasePcs == {"std_open", "std_check", "std_read", "std_time",
                 "win_open", "win_alloc", "win_check", "win_read", "win_time",
                 "dd_prepare", "dd_running"}

ChunkedPlatforms == {"Windows", "Linux"}

(* Pairs of successive progress_update events. *)
ProgressPairs ==
    {i \in 1..(Len(events) - 1) : IsProgress(events[i]) /\ IsProgress(events[i + 1])}

(* A speed num/den as a float is greater than 0. *)
Positive(speed) == speed.num > 0 /\ speed.den > 0

(* Bytes the read phase took from the file. *)
ActualRead == IF platform = "Darwin" THEN dd_read ELSE bytes_read

----------------------------------------------------------------------------
(* C1: a run during which cancel() is never called emits exactly one       *)
(* terminal signal, test_finished or error_occurred: never two, and one    *)
(* once the run has ended.                                                 *)
C1_ExactlyOneTerminal ==
    cancel_pc = "none" =>
        /\ TerminalCount <= 1
        /\ pc = "done" => TerminalCount = 1

C1_Witness ==
    pc = "done" /\ cancel_pc = "none" /\ Finished /\ bytes_read = test_size

(* C2: a run in which cancel() arrived during the write loop or the read   *)
(* phase has delivered a terminal signal by the time it ends.              *)
C2_CancelDeliversTerminal ==
    (pc = "done" /\ cancel_pc \in WriteLoopPcs \cup ReadPhasePcs) => TerminalCount >= 1

(* C3: when cancel() is called while the write loop or the read phase is   *)
(* in progress, test_finished is never emitted.                            *)
C3_NoResultAfterCancel ==
    cancel_pc \in WriteLoopPcs \cup ReadPhasePcs => ~Finished

C3_Witness ==
    /\ pc = "done"
    /\ cancel_pc \in ReadPhasePcs
    /\ ActualRead = test_size
    /\ ~ErrorEmitted

(* C4 as stated: once the run has ended, on every exit path, the temp      *)
(* file does not exist.                                                    *)
C4_TempFileGone ==
    pc = "done" => ~file_exists

(* C4 amended: once the run has ended the temp file does not exist, unless *)
(* the removal attempted by _cleanup failed.                               *)
C4_TempFileGoneUnlessRemoveFails ==
    (pc = "done" /\ file_exists) => remove_failed

C4_Witness ==
    /\ pc = "done"
    /\ file_created
    /\ ~file_exists
    /\ cancel_pc \in WriteLoopPcs
    /\ file_len > 0

(* C5: no progress_update follows a test_finished or an error_occurred.    *)
(* Every signal is a progress_update or a terminal signal, so a progress   *)
(* after a terminal signal shows as a terminal signal directly followed by *)
(* a progress_update.                                                      *)
C5_NoProgressAfterTerminal ==
    \A i \in 1..(Len(events) - 1) :
        IsTerminal(events[i]) => ~IsProgress(events[i + 1])

C5_Witness ==
    /\ pc = "done"
    /\ Len(events) > 3
    /\ IsTerminal(events[Len(events)])
    /\ IsProgress(events[Len(events) - 1])

(* C6: in a successful run, under every read strategy, the percents of     *)
(* successive progress_update events never decrease and all lie in 0..100. *)
C6_ProgressNonDecreasingInRange ==
    Finished =>
        /\ \A i \in ProgressPairs : events[i].percent <= events[i + 1].percent
        /\ \A i \in DOMAIN events :
              IsProgress(events[i]) => events[i].percent \in 0..100

C6_Witness ==
    /\ Finished
    /\ \E i \in ProgressPairs : events[i].percent = events[i + 1].percent
    /\ \E i \in DOMAIN events : IsProgress(events[i]) /\ events[i].percent = 100

(* C7 as stated: with a chunked read strategy every progress_update has a  *)
(* percent strictly greater than the one before it, for every test size.   *)
C7_StrictlyIncreasing ==
    platform \in ChunkedPlatforms =>
        \A i \in ProgressPairs : events[i].percent < events[i + 1].percent

(* C7 amended: with a chunked read strategy every progress_update has a    *)
(* percent greater than or equal to the one before it, within 0..50 in the *)
(* write phase and 50..100 in the read phase; from one chunk to the next   *)
(* of the same phase it is strictly greater when test_size is below 200    *)
(* MiB and every write was complete.                                       *)
C7_NonDecreasingStrictPerChunk ==
    platform \in ChunkedPlatforms =>
        /\ \A i \in ProgressPairs : events[i].percent <= events[i + 1].percent
        /\ \A i \in DOMAIN events :
              /\ events[i].phase = "write" => events[i].percent \in 0..50
              /\ events[i].phase = "read" => events[i].percent \in 50..100
        /\ (test_size < 200 /\ short_writes = 0) =>
              \A i \in ProgressPairs :
                  (/\ events[i].kind = "chunk"
                   /\ events[i + 1].kind = "chunk"
                   /\ events[i].phase = events[i + 1].phase)
                  => events[i].percent < events[i + 1].percent

C7_Witness ==
    /\ platform \in ChunkedPlatforms
    /\ pc = "done"
    /\ Finished
    /\ test_size = 100
    /\ short_writes = 0
    /\ \E i \in ProgressPairs : events[i].percent = 50 /\ events[i + 1].percent = 50

(* C8: in a run that is neither cancelled nor failed the write phase puts  *)
(* exactly test_size bytes in the file.                                    *)
C8_WritesTestSize ==
    (pc = "done" /\ cancel_pc = "none" /\ exc = "none") => file_len = test_size

(* C9: when test_finished is emitted, the read phase has read as many      *)
(* bytes as the write phase wrote.                                         *)
C9_ReadEqualsWritten ==
    Finished => ActualRead = file_len

----------------------------------------------------------------------------
(* Vocabulary of the properties of C11 to C20 *)

Floor50(b, ts) == (b * 50) \div ts

LastEvent == events[Len(events)]

ProgressCount == Cardinality({i \in DOMAIN events : IsProgress(events[i])})

(* The progress_update events of the chunks of one phase, in order. *)
ChunkPercents(phase) ==
    LET chunks == SelectSeq(events, LAMBDA e : e.kind = "chunk" /\ e.phase = phase)
    IN  [i \in DOMAIN chunks |-> chunks[i].percent]

(* cancel() was called after start() and before the first chunk was written. *)
CancelBeforeFirstChunk ==
    cancel_pc \in {"idle", "open_w", "w_check", "w_chunk"} /\ cancel_written = 0

PurgeFailed == purge_outcome \in {"nonzero", "exception"}

(* Positions of run() from the read test on. *)
FromReadPcs ==
    {"prep_read"} \cup ReadPhasePcs \cup
    {"cleanup", "final_check", "emit_finished", "except", "cleanup_except", "done"}

----------------------------------------------------------------------------
(* C11: the percent emitted after each written chunk is                    *)
(* floor(bytes_written * 50 / test_size), after each chunk read it is      *)
(* 50 + floor(bytes_read * 50 / test_size); for 100 MiB the write loop     *)
(* makes 25 iterations emitting 2, 4, ..., 50 and the fallback read loop   *)
(* emits 52, 54, ..., 100.                                                 *)
C11_PercentIsFloor ==
    /\ (pc = "w_check" /\ bytes_written > 0) =>
           LastEvent.percent = Floor50(bytes_written, test_size)
    /\ (pc \in {"std_check", "win_check"} /\ bytes_read > 0) =>
           LastEvent.percent = 50 + Floor50(bytes_read, test_size)
    /\ (test_size = 100 /\ pc = "w_flush" /\ ~is_cancelled) =>
           ChunkPercents("write") = [i \in 1..25 |-> 2 * i]
    /\ (test_size = 100 /\ platform = "Linux" /\ pc = "std_time"
          /\ ~is_cancelled /\ short_writes = 0) =>
           ChunkPercents("read") = [i \in 1..25 |-> 50 + 2 * i]

(* C12: when creating or opening the temp file fails, exactly one          *)
(* error_occurred ends the run, no chunk is written or read and no         *)
(* read-phase progress_update is emitted.                                  *)
C12_OpenFailureEndsRun ==
    exc = "open" =>
        /\ bytes_written = 0 /\ bytes_read = 0 /\ file_len = 0 /\ dd_state = "none"
        /\ \A i \in DOMAIN events : events[i].phase # "read"
        /\ ~Finished
        /\ TerminalCount <= 1
        /\ pc = "done" => (ErrorEmitted /\ TerminalCount = 1)

C12_Witness ==
    pc = "done" /\ exc = "open" /\ LastEvent = Term("error_occurred", "open")

(* C13 as stated: after a cancel() that came before any chunk was written  *)
(* the run ends with no chunk written, at most one progress_update and no  *)
(* test_finished.                                                          *)
C13_CancelBeforeFirstChunkWritesNothing ==
    (pc = "done" /\ CancelBeforeFirstChunk) =>
        /\ bytes_written = 0
        /\ ProgressCount <= 1
        /\ ~Finished

(* C13 amended: after a cancel() that came before any chunk was written    *)
(* the run writes at most one chunk and emits at most two progress_update  *)
(* events, and none and at most one when the flag was set before the       *)
(* loop's first test of it; test_finished is not emitted.                  *)
C13_CancelBeforeFirstChunkWritesAtMostOne ==
    CancelBeforeFirstChunk =>
        /\ bytes_written <= buffer_size
        /\ io_after_cancel <= 1
        /\ ProgressCount <= 2
        /\ cancel_pc # "w_chunk" => (bytes_written = 0 /\ ProgressCount <= 1)
        /\ ~Finished

C13_Witness ==
    /\ pc = "done"
    /\ CancelBeforeFirstChunk
    /\ cancel_pc = "w_chunk"
    /\ bytes_written = buffer_size
    /\ ProgressCount = 2

(* C14: after cancel() has set the flag the run does at most one further   *)
(* chunk of write or read I/O, in the write phase and in every read        *)
(* strategy.                                                               *)
C14_AtMostOneChunkAfterCancel ==
    io_after_cancel <= 1

(* C15: a dd that was running when cancel() was called is terminated or    *)
(* killed, not left to run to its end or to its timeout.                   *)
C15_DDKilledOnCancel ==
    (cancel_pc = "dd_running" /\ dd_state # "running") => dd_state = "killed"

(* C16: a progress_update of the write phase carries a percent in 0..50,   *)
(* one of the cache-clear step or of the read phase a percent in 50..100.  *)
C16_PhaseRanges ==
    \A i \in DOMAIN events :
        /\ events[i].phase = "write" => events[i].percent \in 0..50
        /\ events[i].phase \in {"cache", "read"} => events[i].percent \in 50..100

C16_Witness ==
    /\ Finished
    /\ test_size % buffer_size # 0
    /\ \E i \in DOMAIN events : events[i].phase = "cache"
    /\ \E i \in DOMAIN events : events[i].phase = "read" /\ events[i].percent = 100

(* C17: in a run that reaches the read phase, flush and fsync have         *)
(* returned after the last write chunk and before the cache-clear step     *)
(* and the first read of the file.                                         *)
C17_FlushBeforeRead ==
    /\ (\/ pc \in {"purge"} \cup FromReadPcs /\ exc = "none"
        \/ purge_outcome # "none"
        \/ bytes_read > 0
        \/ dd_state # "none") => (flushed /\ fd # "w")
    /\ flushed => pc \notin {"idle", "open_w", "w_check", "w_chunk", "w_flush"}

C17_Witness ==
    /\ flushed
    /\ purge_outcome # "none"
    /\ dd_state = "exit0"
    /\ dd_read = test_size

(* C18: an I/O failure of the write phase or of a read strategy, a dd that *)
(* exits with a non-zero status included, ends the run with an             *)
(* error_occurred that carries the error, and without test_finished.       *)
(* Stated of the runs in which cancel() is never called.                   *)
C18_IOFailureEndsInError ==
    (pc = "done" /\ cancel_pc = "none" /\ (exc # "none" \/ dd_state = "exit_nonzero")) =>
        /\ ~Finished
        /\ \E i \in DOMAIN events :
              events[i].sig = "error_occurred" /\ (exc # "none" => events[i].kind = exc)

(* C19: a dd that exceeds its bound ends the run with an error_occurred    *)
(* that carries the timeout message, which no other failure produces, and  *)
(* without test_finished.                                                  *)
C19_TimeoutDistinctError ==
    /\ dd_state = "timeout" =>
          /\ exc = "dd_timeout"
          /\ ~Finished
          /\ pc \in {"cleanup_except", "done"} =>
                LastEvent = Term("error_occurred", "dd_timeout")
    /\ \A i \in DOMAIN events :
          events[i] = Term("error_occurred", "dd_timeout") => dd_state = "timeout"

C19_Witness ==
    pc = "done" /\ dd_state = "timeout" /\ LastEvent = Term("error_occurred", "dd_timeout")

(* C20: a failing purge command or F_NOCACHE directive raises nothing in   *)
(* run(): the read phase starts, and a run that meets no other failure and *)
(* no cancel() ends with test_finished.                                    *)
C20_CacheFailureNotFatal ==
    /\ exc \notin {"purge", "nocache"}
    /\ PurgeFailed => pc \in FromReadPcs
    /\ nocache_outcome = "failed" => dd_state # "none"
    /\ (pc = "done" /\ (PurgeFailed \/ nocache_outcome = "failed")
          /\ cancel_pc = "none" /\ exc = "none") => Finished

C20_Witness ==
    /\ Finished
    /\ PurgeFailed
    /\ nocache_outcome = "failed"

----------------------------------------------------------------------------
(* Vocabulary of the claims on resources, speeds and termination *)

\* positions of run() inside _read_windows_uncached
WinPcs == {"win_open", "win_alloc", "win_check", "win_read", "win_time"}

\* _read_windows_uncached has been entered and left
WinReadLeft == platform = "Windows" /\ pc \in FromReadPcs \ ({"prep_read"} \cup WinPcs)

(* C21: once the native unbuffered read has been left, by its normal end,  *)
(* the end of the file, cancellation, a ReadFile error or a failed buffer  *)
(* allocation, the handle CreateFileW opened has been closed exactly once  *)
(* and the buffer, if VirtualAlloc returned one, released exactly once;    *)
(* neither is ever closed or released twice.                               *)
C21_HandleAndBufferReleased ==
    /\ win_closes <= 1
    /\ win_frees <= 1
    /\ WinReadLeft =>
          /\ win_handle # "open"
          /\ win_handle = "closed" <=> win_closes = 1
          /\ win_buf # "alloc"
          /\ win_buf = "freed" <=> win_frees = 1

C21_Witness ==
    /\ WinReadLeft
    /\ exc = "ReadFile"
    /\ bytes_read > 0
    /\ win_closes = 1
    /\ win_frees = 1

(* C22: the read speed a run reports is the number of bytes its read       *)
(* strategy actually read, divided by the clamped elapsed read time, in    *)
(* every read strategy.                                                    *)
C22_SpeedFromBytesRead ==
    Finished =>
        /\ read_speed.num = ActualRead
        /\ read_speed.den = Clamp(read_speed.raw)

(* C23: the elapsed time by which the write speed and the read speed are   *)
(* divided is never smaller than 1 ms, whatever the measured elapsed time. *)
C23_DivisorAtLeastOneMs ==
    /\ write_speed # NoSpeed => write_speed.den >= ClampTime
    /\ read_speed # NoSpeed => read_speed.den >= ClampTime

----------------------------------------------------------------------------
(* C24: while a SpeedTestThread started by start_speed_test is running, no *)
(* click on another row's button and no rebuild of the table followed by a *)
(* click starts a second SpeedTestThread or replaces                       *)
(* self.speed_test_thread: at most one thread runs, and it is the one      *)
(* self.speed_test_thread refers to.                                       *)
C24_NoSecondRun ==
    /\ Cardinality(RunningThreads) <= 1
    /\ \A t \in RunningThreads : speed_test_thread = t

(* C25: of two runs side by side, under every interleaving, each opens,    *)
(* writes, reads and removes only the temp file its own open() created,    *)
(* and the two runs never name the same file.                              *)
C25_OwnTempFileOnly ==
    /\ \A i \in Runs : \A p \in pair_touched[i] : <<p, i>> \in pair_creator
    /\ \A p \in pair_files : \E i \in Runs : <<p, i>> \in pair_creator /\ TempFile(i) = p
    /\ (pair_name[1] # "none" /\ pair_name[2] # "none") => TempFile(1) # TempFile(2)

C25_Witness ==
    /\ pair_target[1] = pair_target[2]
    /\ pair_pc[1] = "written"
    /\ pair_pc[2] = "done"
    /\ pair_touched[2] # {}
    /\ TempFile(1) \in pair_files

(* C26: a failing removal of the temp file changes nothing in the outcome  *)
(* of the run: a run that is not cancelled and whose read strategy         *)
(* returned a speed ends with test_finished carrying both speeds and       *)
(* without error_occurred, and an error_occurred is only ever emitted for  *)
(* an exception of the write or read phase.                                *)
C26_RemoveFailureSwallowed ==
    /\ (pc = "done" /\ remove_failed /\ cancel_pc = "none" /\ read_speed # NoSpeed) =>
          /\ Finished
          /\ ~ErrorEmitted
          /\ write_speed # NoSpeed
    /\ \A i \in DOMAIN events :
          events[i].sig = "error_occurred" => events[i].kind = exc /\ exc # "none"
    /\ remove_failed => file_exists

C26_Witness ==
    /\ pc = "done"
    /\ remove_failed
    /\ Finished
    /\ file_exists

(* C27: when every I/O call and the helper process return, every started   *)
(* run ends: each iteration of the write loop increases bytes_written,     *)
(* each iteration of a read loop increases bytes_read, and run() reaches   *)
(* its end.                                                                *)
C27_RunTerminates ==
    /\ [][(pc = "w_chunk" /\ pc' = "w_check") => bytes_written' > bytes_written]_vars
    /\ [][(pc \in {"std_read", "win_read"} /\ pc' \in {"std_check", "win_check"})
             => bytes_read' > bytes_read]_vars
    /\ <>(pc = "done")

C27_Witness ==
    /\ pc = "done"
    /\ test_size = 300
    /\ bytes_written = test_size
    /\ bytes_read = test_size

(* C28: when a terminal signal (test_finished or error_occurred) has been  *)
(* emitted, the removal of the temp file has already been attempted: the   *)
(* file no longer exists, unless that removal failed.                      *)
C28_CleanupBeforeTerminal ==
    (Finished \/ ErrorEmitted) => (~file_exists \/ remove_failed)

(* C29: test_finished is never emitted once cancel() has returned,         *)
(* wherever in run() the call arrives, the moment just before the emit     *)
(* included.                                                               *)
C29_NoResultOnceCancelled ==
    is_cancelled => ~Finished

(* C29, amended: test_finished is never emitted when cancel() has returned *)
(* before run() tests the flag for the last time (line 133): after the     *)
(* last iteration of the read loop, during the cleanup, or earlier.        *)
C29_NoResultWhenCancelledBeforeLastTest ==
    (is_cancelled /\ cancel_pc # "emit_finished") => ~Finished

C29_Witness ==
    /\ pc = "done"
    /\ cancel_pc \in {"cleanup", "final_check"}
    /\ bytes_read = test_size
    /\ read_speed # NoSpeed
    /\ ~Finished

(* C30: after FileTransferThread.run has ended with finished(False, ...),  *)
(* because it was cancelled or because an exception stopped the copy       *)
(* part-way, no destination file holding only a part of the source         *)
(* remains.                                                                *)
C30_NoPartialDestination ==
    (ft_pc = "done" /\ \E i \in DOMAIN ft_events :
                          ft_events[i].sig = "finished" /\ ~ft_events[i].ok) =>
        ~(ft_dst_exists /\ ft_dst_len < ft_size)

====
